---------------------------- MODULE Spec2Model ----------------------------
(***************************************************************************)
(* A model of the defmt host pipeline and device-side logger:              *)
(*   - print/src/main.rs: the stream loop of defmt-print (read, scan for   *)
(*     zero-terminated frames, rzCOBS-decode, table-decode, attach the     *)
(*     location, emit, compact the reassembly buffer);                     *)
(*   - firmware/defmt-buffer/src/lib.rs: the global logger writing into    *)
(*     bbqueue frame grants, one producer per priority level.              *)
(***************************************************************************)
EXTENDS Integers, Sequences, FiniteSets, TLC

VARIABLES
    \* ---- print/src/main.rs ----
    input,      \* the bytes the reader will deliver, in order
    pos,        \* how many bytes of input the reader has delivered so far
    rawLocs,    \* the Locations map returned by get_locations (line 52)
    locs,       \* Option<Locations> after the precheck (line 54): <<>> or <<map>>
    frames,     \* the reassembly buffer (line 69)
    data,       \* the scan window, a slice of frames (line 78)
    events,     \* the calls made to log_defmt, in order (line 105)
    pc,         \* where main is: "start", "read", "scan", or how it ended
    consumed,   \* history: number of input bytes the scan has advanced past
    last,       \* history: what the latest pass of the while loop did
    eofSeen,    \* history: read has returned 0 bytes
    lastCut,    \* history: the stream position at which the read before the latest one ended
    \* ---- firmware/defmt-buffer/src/lib.rs ----
    INIT,       \* the AtomicBool of init (line 102)
    PRODS,      \* the producer of each priority level, None before init (line 51)
    WRITERS,    \* the in-flight writer of each priority level (line 48)
    primask,    \* the PRIMASK register: "Active" or "Inactive"
    basepri,    \* the BASEPRI register
    stack,      \* the nested execution contexts, the running one last
    halted,     \* a panic has stopped the firmware
    lastCommit, \* history: the latest call of FrameGrantW::commit, None before the first
    calls,      \* history: number of calls of acquire and write so far
    acquired,   \* history: what the latest call of acquire returned, None before the first
    \* ---- elf2table/src/lib.rs, parse ----
    elf,        \* the image given to parse: whether it is an object file, whether it has
                \* a `.defmt` section, and the version symbols of its symbol table in order
    ppc,        \* where parse is: "open", "scan", or "done"
    map,        \* the BTreeMap of line 28
    version,    \* the Option of line 29
    marker,     \* the ten Options of lines 30-39, by the name of their symbol
    ret,        \* what parse returned, None while it runs
    vnext,      \* history: how many of the version symbols the iterator has yielded
    seen,       \* history: the named symbols of the `.defmt` section the iterator has yielded
    \* ---- elf2table/src/lib.rs, get_locations ----
    live_syms,  \* the names `table.symbols()` yields (line 119)
    lpc,        \* where get_locations is: "units", "entries", or "done"
    unit,       \* the compilation unit being walked, and how many were begun
    segments,   \* the namespace names of line 157
    depth,      \* the depth of line 158
    loc_map,    \* the BTreeMap of line 148
    lret,       \* what get_locations returned, None while it runs
    die,        \* history: the entry the cursor yielded last
    entries,    \* history: how many entries the cursor has yielded
    resolved,   \* history: how many of them were live log call sites with an address and a file
    ancestry    \* history: for each depth down to that of the entry yielded last, the name of
                \* the namespace the tree has there, None where it has an entry of another kind

streamVars == <<input, pos, rawLocs, locs, frames, data, events, pc, consumed, last, eofSeen, lastCut>>

deviceVars == <<INIT, PRODS, WRITERS, primask, basepri, stack, halted, lastCommit, calls, acquired>>

parseVars == <<elf, ppc, map, version, marker, ret, vnext, seen>>

locVars == <<live_syms, lpc, unit, segments, depth, loc_map, lret, die, entries, resolved, ancestry>>

elfVars == <<parseVars, locVars>>

vars == <<streamVars, deviceVars, elfVars>>

-----------------------------------------------------------------------------
(* Bounds of the model *)

\* longest byte stream the reader delivers
MaxLen == 5

\* the byte values of the model's streams; 0 is the frame terminator
Bytes == {0, 1, 2, 3}

-----------------------------------------------------------------------------
(* Program constants *)

READ_BUFFER_SIZE == 1024

-----------------------------------------------------------------------------
(* Option values: <<>> is None, <<v>> is Some(v) *)

None == <<>>
Some(v) == <<v>>
IsSome(o) == Len(o) = 1
Unwrap(o) == o[1]

Min(a, b) == IF a <= b THEN a ELSE b

\* all sequences over S of length at most n
SeqsUpTo(S, n) == UNION {[1..k -> S] : k \in 0..n}

\* s[from..] with a 0-based start, as a Rust slice
SliceFrom(s, from) == SubSeq(s, from + 1, Len(s))

\* s[..to] with a 0-based exclusive end
SliceTo(s, to) == SubSeq(s, 1, to)

IsPrefix(p, s) == Len(p) <= Len(s) /\ SubSeq(s, 1, Len(p)) = p

-----------------------------------------------------------------------------
(* The Table and the two decoders the loop calls.  Both decoders are pure  *)
(* functions of the bytes they are given.                                  *)

\* Table::indices(): the indices the table exposes
TableIndices == {0, 1}

\* number of argument bytes the format string of an index takes
ArgBytes(index) == index

\* rzcobs::decode: the last byte of a frame is its control byte and the
\* bytes before it are literal (non-zero) payload bytes.  Control byte 1
\* stands for a zero byte after the payload, control byte 2 for none, and
\* any other control byte is invalid.
rzcobs_decode(frame) ==
    LET ctl == frame[Len(frame)]
        payload == SubSeq(frame, 1, Len(frame) - 1)
    IN  IF ctl = 1 THEN [ok |-> TRUE, msg |-> Append(payload, 0)]
        ELSE IF ctl = 2 THEN [ok |-> TRUE, msg |-> payload]
        ELSE [ok |-> FALSE, msg |-> <<>>]

\* Table::decode: reads the index, looks it up in the table, then reads
\* the arguments; bytes after the arguments are left unconsumed.
table_decode(msg) ==
    IF msg = <<>>
    THEN [tag |-> "UnexpectedEof", index |-> 0, args |-> <<>>, used |-> 0]
    ELSE IF msg[1] \notin TableIndices
    THEN [tag |-> "Malformed", index |-> 0, args |-> <<>>, used |-> 0]
    ELSE IF Len(msg) - 1 < ArgBytes(msg[1])
    THEN [tag |-> "UnexpectedEof", index |-> 0, args |-> <<>>, used |-> 0]
    ELSE [tag |-> "Ok", index |-> msg[1],
          args |-> SubSeq(msg, 2, 1 + ArgBytes(msg[1])),
          used |-> 1 + ArgBytes(msg[1])]

-----------------------------------------------------------------------------
(* Locations *)

\* env::current_dir()
current_dir == [absolute |-> TRUE, comps |-> <<"home", "proj">>]

\* a u64 line number as two 32-bit words
Line64(hi, lo) == [hi |-> hi, lo |-> lo]

\* `loc.line as u32`: the low 32 bits
AsU32(line) == line.lo

\* the Location debug info holds for each index of the model
LocationOf(index) ==
    IF index = 0
    THEN [file |-> [absolute |-> TRUE, comps |-> <<"home", "proj", "src", "main.rs">>],
          line |-> Line64(0, 7), module |-> "app"]
    ELSE [file |-> [absolute |-> TRUE, comps |-> <<"opt", "dep", "lib.rs">>],
          line |-> Line64(1, 9), module |-> "dep::io"]

\* the Locations maps get_locations may return: any subset of the indices
LocationMaps == {[i \in D |-> LocationOf(i)] : D \in SUBSET TableIndices}

\* Path::strip_prefix
strip_prefix(path, base) ==
    IF path.absolute = base.absolute /\ IsPrefix(base.comps, path.comps)
    THEN Some([absolute |-> FALSE, comps |-> SliceFrom(path.comps, Len(base.comps))])
    ELSE None

\* a precheck that always keeps the map
Precheck_Always(ls) == Some(ls)

\* the precheck of lines 54-59
Precheck(ls) ==
    IF \A idx \in TableIndices : idx \in DOMAIN ls THEN Some(ls) ELSE None


-----------------------------------------------------------------------------
(* The stream loop of main, lines 73-139 *)

\* data.iter().position(|x| *x == 0)
Position(d) ==
    IF \E i \in 1..Len(d) : d[i] = 0
    THEN Some((CHOOSE i \in 1..Len(d) : d[i] = 0 /\ \A j \in 1..(i - 1) : d[j] # 0) - 1)
    ELSE None

\* Vec::rotate_right(k): the last k elements move to the front
rotate_right(v, k) == [i \in 1..Len(v) |-> v[((i - 1 - k) % Len(v)) + 1]]

\* Vec::truncate(k)
truncate(v, k) == SubSeq(v, 1, Min(k, Len(v)))

\* a compaction that clears the buffer whatever is left in the window
Compact_DropsTrailer(fr, d) == <<>>

\* a compaction that truncates without rotating first
Compact_KeepsHead(fr, d) == truncate(fr, Len(d))

\* a compaction that leaves the buffer as it is
Compact_KeepsAll(fr, d) == fr

\* lines 132-138: keep the unscanned window at the front of the buffer
Compact(fr, d) ==
    LET leftover == Len(d)
    IN  IF leftover = 0 THEN <<>> ELSE truncate(rotate_right(fr, leftover), leftover)

\* leaving the while loop (by break or because no zero byte is left)
AfterLoop(st) ==
    [st EXCEPT !.frames = Compact(st.frames, st.data), !.data = <<>>, !.pc = "read"]

\* lines 124-130: step over the frame and its zero byte
Advance(st, end_idx) ==
    LET next_start == end_idx + 1
    IN  IF Len(st.frames) > next_start
        THEN [st EXCEPT !.data = SliceFrom(st.data, next_start),
                        !.consumed = @ + next_start]
        ELSE AfterLoop([st EXCEPT !.data = <<>>, !.consumed = @ + next_start])

\* line 88: `&locs[&frame.index()]` panics when the key is missing
LookupPanics(ls, index) == IsSome(ls) /\ index \notin DOMAIN Unwrap(ls)

\* lines 88-110: the arguments of log_defmt
Attach(res, ls, endPos) ==
    IF IsSome(ls)
    THEN LET loc == Unwrap(ls)[res.index]
             rel == strip_prefix(loc.file, current_dir)
         IN  [index |-> res.index, args |-> res.args,
              file |-> Some(IF IsSome(rel) THEN Unwrap(rel) ELSE loc.file),
              line |-> Some(AsU32(loc.line)),
              module |-> Some(loc.module),
              endPos |-> endPos]
    ELSE [index |-> res.index, args |-> res.args,
          file |-> None, line |-> None, module |-> None, endPos |-> endPos]

\* UnexpectedEof handled as a frame to skip
OnDecoded_EofSkips(st, ls, end_idx, res) ==
    CASE res.tag = "Ok" ->
            IF LookupPanics(ls, res.index)
            THEN [st EXCEPT !.pc = "panic", !.last = "panic"]
            ELSE Advance([st EXCEPT
                            !.events = Append(@, Attach(res, ls, st.consumed + end_idx + 1)),
                            !.last = "ok"], end_idx)
      [] res.tag = "UnexpectedEof" -> Advance([st EXCEPT !.last = "eof"], end_idx)
      [] res.tag = "Malformed" -> [st EXCEPT !.pc = "err_malformed", !.last = "malformed"]

\* Malformed handled as a frame to skip
OnDecoded_MalformedSkips(st, ls, end_idx, res) ==
    CASE res.tag = "Ok" ->
            IF LookupPanics(ls, res.index)
            THEN [st EXCEPT !.pc = "panic", !.last = "panic"]
            ELSE Advance([st EXCEPT
                            !.events = Append(@, Attach(res, ls, st.consumed + end_idx + 1)),
                            !.last = "ok"], end_idx)
      [] res.tag = "UnexpectedEof" -> AfterLoop([st EXCEPT !.last = "eof"])
      [] res.tag = "Malformed" -> Advance([st EXCEPT !.last = "malformed"], end_idx)

\* lines 84-117: what the table decoder's result makes the loop do
OnDecoded(st, ls, end_idx, res) ==
    CASE res.tag = "Ok" ->
            IF LookupPanics(ls, res.index)
            THEN [st EXCEPT !.pc = "panic", !.last = "panic"]
            ELSE Advance([st EXCEPT
                            !.events = Append(@, Attach(res, ls, st.consumed + end_idx + 1)),
                            !.last = "ok"], end_idx)
      [] res.tag = "UnexpectedEof" -> AfterLoop([st EXCEPT !.last = "eof"])
      [] res.tag = "Malformed" -> [st EXCEPT !.pc = "err_malformed", !.last = "malformed"]

\* a frame-decode failure that ends the read cycle, keeping the frame
LoopPass_FramingBreaks(st, ls) ==
    LET end_idx == Unwrap(Position(st.data))
        dec == rzcobs_decode(SliceTo(st.data, end_idx))
    IN  IF end_idx = 0
        THEN Advance([st EXCEPT !.last = "empty"], end_idx)
        ELSE IF dec.ok
        THEN OnDecoded(st, ls, end_idx, table_decode(dec.msg))
        ELSE AfterLoop([st EXCEPT !.last = "framing"])

\* lines 79-131: one pass of the while loop, a zero byte being in the window
LoopPass(st, ls) ==
    LET end_idx == Unwrap(Position(st.data))
        dec == rzcobs_decode(SliceTo(st.data, end_idx))
    IN  IF end_idx = 0
        THEN Advance([st EXCEPT !.last = "empty"], end_idx)
        ELSE IF dec.ok
        THEN OnDecoded(st, ls, end_idx, table_decode(dec.msg))
        ELSE Advance([st EXCEPT !.last = "framing"], end_idx)

\* the loop's state as one record
LoopState ==
    [frames |-> frames, data |-> data, events |-> events, pc |-> pc,
     consumed |-> consumed, last |-> last]

SetLoopState(st) ==
    /\ frames' = st.frames
    /\ data' = st.data
    /\ events' = st.events
    /\ pc' = st.pc
    /\ consumed' = st.consumed
    /\ last' = st.last

-----------------------------------------------------------------------------
(* elf2table: parse.  A symbol name is a sequence of tokens: the quote      *)
(* character, the text `_defmt_version_ = `, or any other run of text.      *)

Quote == "\""
VersionTag == "_defmt_version_ = "

\* the version strings of the images
VersionValues == {"1", "2"}

\* a version symbol as the linker script writes it, and as LLD leaves it
Unquoted(v) == <<VersionTag, v>>
Quoted(v) == <<Quote, VersionTag, v, Quote>>
VersionNames == {Unquoted(v) : v \in VersionValues} \cup {Quoted(v) : v \in VersionValues}

\* the symbol tables hold no, one or two version symbols
VersionTables ==
    {<<>>} \cup {<<a>> : a \in VersionNames} \cup {<<a, b>> : a, b \in VersionNames}

\* lines 67-76
MarkerNames ==
    {"_defmt_trace_start", "_defmt_trace_end", "_defmt_debug_start", "_defmt_debug_end",
     "_defmt_info_start", "_defmt_info_end", "_defmt_warn_start", "_defmt_warn_end",
     "_defmt_error_start", "_defmt_error_end"}

\* the symbols of interned strings of the images, two of them at one
\* address, and the address of the marker symbols
StringSymbols ==
    {[name |-> <<"a">>, address |-> 1], [name |-> <<"b">>, address |-> 1],
     [name |-> <<"b">>, address |-> 2]}
MarkerAddrs == {1}

\* the sections a symbol can belong to; None is an absolute symbol
DefmtSection == ".defmt"
OtherSection == ".text"

\* the message of line 95, without its backquotes
MissingSymbol == "_defmt_* symbol not found"

\* str::starts_with
starts_with(s, pat) == IsPrefix(pat, s)

\* str::trim_start_matches: the pattern is removed as often as it leads
RECURSIVE trim_start_matches(_, _)
trim_start_matches(s, pat) ==
    IF pat # <<>> /\ IsPrefix(pat, s)
    THEN trim_start_matches(SubSeq(s, Len(pat) + 1, Len(s)), pat)
    ELSE s

\* str::trim_end_matches with a character
RECURSIVE trim_end_matches(_, _)
trim_end_matches(s, c) ==
    IF s # <<>> /\ s[Len(s)] = c
    THEN trim_end_matches(SubSeq(s, 1, Len(s) - 1), c)
    ELSE s

\* line 50
is_version(name) ==
    starts_with(name, <<Quote, VersionTag>>) \/ starts_with(name, <<VersionTag>>)

\* a version that keeps the quote LLD left at its end
new_version_KeepsQuote(name) ==
    trim_start_matches(trim_start_matches(name, <<Quote, VersionTag>>), <<VersionTag>>)

\* lines 51-54
new_version(name) ==
    trim_end_matches(
        trim_start_matches(trim_start_matches(name, <<Quote, VersionTag>>), <<VersionTag>>),
        Quote)

\* a map that keeps the value a key already has
insert_KeepsFirst(m, key, value) ==
    [k \in (DOMAIN m) \cup {key} |-> IF k \in DOMAIN m THEN m[k] ELSE value]

\* BTreeMap::insert: the map with the key bound to the value
insert(m, key, value) ==
    [k \in (DOMAIN m) \cup {key} |-> IF k = key THEN value ELSE m[k]]

Ok(value) == [tag |-> "Ok", value |-> value]
Err(error, args) == [tag |-> "Err", error |-> error, args |-> args]

\* Table::new, line 97: the Table of the map, the five ranges and the version
Table_new(m, debug, error, info, trace, warn, v) ==
    Ok([map |-> m, debug |-> debug, error |-> error, info |-> info,
        trace |-> trace, warn |-> warn, version |-> v])

\* a lookup that finds a section in every image
section_by_name_Always(image) == Some(DefmtSection)

\* `elf.section_by_name(".defmt")` with `section.index()`, lines 22-23; a
\* section's index is modelled by its name
section_by_name(image) == IF image.hasSection THEN Some(DefmtSection) ELSE None

\* the locals of parse before its loop, lines 28-39
ParseLocals ==
    [map |-> <<>>, version |-> None, marker |-> [n \in MarkerNames |-> None], ret |-> None]

\* one pass of the loop of lines 40-82 over a symbol; `ret` is set when
\* the pass returns from parse
ScanEntry(st, entry) ==
    IF entry.name = None THEN st
    ELSE
    LET name == Unwrap(entry.name)
    IN  IF is_version(name) /\ IsSome(st.version)
        THEN [st EXCEPT !.ret = Some(Err("multiple defmt versions in use",
                                        <<Unwrap(st.version), new_version(name)>>))]
        ELSE
        LET st1 == IF is_version(name)
                   THEN [st EXCEPT !.version = Some(new_version(name))]
                   ELSE st
        IN  IF entry.section_index = Some(DefmtSection)
            THEN IF Len(name) = 1 /\ name[1] \in MarkerNames
                 THEN [st1 EXCEPT !.marker[name[1]] = Some(entry.address)]
                 ELSE [st1 EXCEPT !.map = insert(@, entry.address, name)]
            ELSE st1

\* a check that asks for the start symbols only
Unify_StartsOnly(mk, v) ==
    IF /\ \A n \in {"_defmt_error_start", "_defmt_warn_start", "_defmt_info_start",
                    "_defmt_debug_start", "_defmt_trace_start"} : IsSome(mk[n])
       /\ IsSome(v)
    THEN Some([error |-> <<mk["_defmt_error_start"], mk["_defmt_error_end"]>>,
               warn |-> <<mk["_defmt_warn_start"], mk["_defmt_warn_end"]>>,
               info |-> <<mk["_defmt_info_start"], mk["_defmt_info_end"]>>,
               debug |-> <<mk["_defmt_debug_start"], mk["_defmt_debug_end"]>>,
               trace |-> <<mk["_defmt_trace_start"], mk["_defmt_trace_end"]>>,
               version |-> Unwrap(v)])
    ELSE None

\* lines 85-94: the five ranges and the version, or None when one of the
\* eleven is missing
Unify(mk, v) ==
    IF (\A n \in MarkerNames : IsSome(mk[n])) /\ IsSome(v)
    THEN Some([error |-> <<Unwrap(mk["_defmt_error_start"]), Unwrap(mk["_defmt_error_end"])>>,
               warn |-> <<Unwrap(mk["_defmt_warn_start"]), Unwrap(mk["_defmt_warn_end"])>>,
               info |-> <<Unwrap(mk["_defmt_info_start"]), Unwrap(mk["_defmt_info_end"])>>,
               debug |-> <<Unwrap(mk["_defmt_debug_start"]), Unwrap(mk["_defmt_debug_end"])>>,
               trace |-> <<Unwrap(mk["_defmt_trace_start"]), Unwrap(mk["_defmt_trace_end"])>>,
               version |-> Unwrap(v)])
    ELSE None

\* lines 84-99: what parse returns after the loop
AfterSymbols(st) ==
    LET u == Unify(st.marker, st.version)
    IN  IF u = None
        THEN Err(MissingSymbol, <<>>)
        ELSE LET r == Unwrap(u)
             IN  LET t == Table_new(st.map, r.debug, r.error, r.info, r.trace, r.warn, r.version)
                 IN  IF t.tag = "Ok" THEN Ok(Some(t.value)) ELSE t

\* parse is not running
ParseIdle ==
    /\ elf = [wellFormed |-> TRUE, hasSection |-> FALSE, versions |-> <<>>]
    /\ ppc = "open"
    /\ map = <<>>
    /\ version = None
    /\ marker = [n \in MarkerNames |-> None]
    /\ ret = None
    /\ vnext = 0
    /\ seen = {}

-----------------------------------------------------------------------------
(* elf2table: get_locations.  A linkage name is a sequence of tokens, one  *)
(* of them the `@` that precedes the disambiguation suffix; a path is the  *)
(* sequence of its components, the root "/" first when it is absolute.     *)

\* most compilation units of an image, most entries the cursor yields in a
\* run, and the deepest entry of a unit's tree (the root is at depth 0)
MaxUnits == 2
MaxEntries == 3
MaxTreeDepth == 2

At == "@"
LogStatement == "DEFMT_LOG_STATEMENT"

\* the names of the namespaces of the images
NamespaceNames == {"a", "b"}

\* the file table of a unit's line program: index 1 is a file in a relative
\* directory, index 2 has no FileEntry
FileEntries == (1 :> [dir |-> <<"src">>, path_name |-> <<"main.rs">>])
comp_dir == Some(<<"/", "proj">>)

is_absolute(path) == path # <<>> /\ path[1] = "/"

\* PathBuf::push: an absolute path replaces the buffer
push(p, path) == IF is_absolute(path) THEN path ELSE p \o path

\* file_index_to_path, lines 275-318
file_index_to_path(index, u) ==
    IF index = 0 THEN Err("FileIndex was zero", <<>>)
    ELSE IF ~u.line_program THEN Err("no LineProgram", <<>>)
    ELSE IF index \notin DOMAIN FileEntries THEN Err("no FileEntry for index", <<index>>)
    ELSE LET file == FileEntries[index]
             p1 == IF ~is_absolute(file.dir) /\ IsSome(comp_dir)
                   THEN push(<<>>, Unwrap(comp_dir))
                   ELSE <<>>
         IN  Ok(push(push(p1, file.dir), file.path_name))

\* exprloc2address, lines 320-334: the address of the first absolute-address
\* operation of the expression
RECURSIVE exprloc2address(_)
exprloc2address(expr) ==
    IF expr = <<>> THEN Err("Operation::Address not found", <<>>)
    ELSE IF expr[1].op = "Address" THEN Ok(expr[1].address)
    ELSE exprloc2address(Tail(expr))

\* `linkage_name.splitn(2, '@').next()`, lines 245-248: the text before the
\* first `@`, the whole name when it has none
RECURSIVE before_at(_)
before_at(name) ==
    IF name = <<>> \/ name[1] = At THEN <<>>
    ELSE <<name[1]>> \o before_at(Tail(name))

\* `segments.join("::")`, line 254
RECURSIVE join(_, _)
join(segs, sep) ==
    IF segs = <<>> THEN <<>>
    ELSE IF Len(segs) = 1 THEN <<segs[1]>>
    ELSE <<segs[1], sep>> \o join(Tail(segs), sep)

\* lines 170-172: `for _ in depth..segments.len() + 1 { segments.pop(); }`;
\* pop on an empty Vec does nothing
truncate_segments(segs, d) ==
    LET pops == IF d < Len(segs) + 1 THEN Len(segs) + 1 - d ELSE 0
    IN  SubSeq(segs, 1, Len(segs) - Min(pops, Len(segs)))

\* impl Debug for Location, lines 109-113
Debug(loc) == <<loc.file, loc.line>>

\* a collision that keeps the newer entry and goes on
InsertLocation_Overwrites(m, addr, loc) == [map |-> insert(m, addr, loc), ret |-> None]

\* lines 258-260: the insertion, and the error when the address was taken
InsertLocation(m, addr, loc) ==
    IF addr \in DOMAIN m
    THEN [map |-> insert(m, addr, loc),
          ret |-> Some(Err("BUG in DWARF variable filter: index collision for addr",
                           <<addr, Debug(m[addr]), Debug(loc)>>))]
    ELSE [map |-> insert(m, addr, loc), ret |-> None]

\* a filter that takes every call site for a live one
IsLive_Always(id, live) == TRUE

\* line 250: `live_syms.contains(&linkage_name)`
IsLive(id, live) == id \in live

\* lines 227-266: a variable entry that has the five attributes
VisitVariable(st, e, u, live) ==
    IF ~e.strings_ok THEN [st EXCEPT !.ret = Some(Err("dwarf.string or from_utf8", <<>>))]
    ELSE IF Unwrap(e.name) # LogStatement THEN st
    ELSE IF ~IsLive(before_at(Unwrap(e.linkage_name)), live) THEN st
    ELSE
    LET addr == exprloc2address(Unwrap(e.location))
        file == file_index_to_path(Unwrap(e.decl_file), u)
    IN  IF addr.tag = "Err" THEN [st EXCEPT !.ret = Some(addr)]
        ELSE IF file.tag = "Err" THEN [st EXCEPT !.ret = Some(file)]
        ELSE LET loc == [file |-> file.value, line |-> Unwrap(e.decl_line),
                         module |-> join(st.segments, "::")]
                 ins == InsertLocation(st.map, addr.value, loc)
             IN  [st EXCEPT !.map = ins.map, !.ret = ins.ret]

\* one pass of the loop of lines 159-268 over the entry the cursor yielded
VisitEntry(st0, delta_depth, e, u, live) ==
    LET st == [st0 EXCEPT !.depth = @ + delta_depth]
    IN  IF e.tag = "DW_TAG_namespace"
        THEN IF e.name = None THEN st
             ELSE IF ~e.strings_ok
             THEN [st EXCEPT !.ret = Some(Err("dwarf.string or from_utf8", <<>>))]
             ELSE [st EXCEPT !.segments =
                        Append(truncate_segments(@, st.depth), Unwrap(e.name))]
        ELSE IF e.tag = "DW_TAG_variable"
        THEN IF /\ IsSome(e.name) /\ IsSome(e.linkage_name) /\ IsSome(e.decl_file)
                /\ IsSome(e.decl_line) /\ IsSome(e.location)
             THEN VisitVariable(st, e, u, live)
             ELSE st
        ELSE st

\* get_locations is not running
LocIdle ==
    /\ live_syms = {}
    /\ lpc = "units"
    /\ unit = [n |-> 0, line_program |-> TRUE]
    /\ segments = <<>>
    /\ depth = 0
    /\ loc_map = <<>>
    /\ lret = None
    /\ die = None
    /\ entries = 0
    /\ resolved = 0
    /\ ancestry = <<>>

ElfIdle == ParseIdle /\ LocIdle

-----------------------------------------------------------------------------
(* The device-side logger, firmware/defmt-buffer/src/lib.rs *)

PRIO_LEVELS == 16

\* the size asked of FrameProducer::grant (line 67)
GRANT_SIZE == 1024

\* most calls of acquire and write in a run
MaxCalls == 3

\* deepest nesting of execution contexts (thread mode and handlers)
MaxDepth == 2

Levels == 0..(PRIO_LEVELS - 1)

\* the values software gives BASEPRI, and the priorities of the interrupts
BasepriValues == {0, 32}
IrqPriorities == {16, 128}

\* a byte slice is a run of `len` bytes of value `val`; the slices the
\* firmware passes to write
Slices ==
    {[len |-> 1, val |-> 1], [len |-> 400, val |-> 2],
     [len |-> 624, val |-> 1], [len |-> 1025, val |-> 2]}

\* bytes are kept run-length encoded: appending a run merges equal neighbours
AppendRun(buf, run) ==
    IF run.len = 0 THEN buf
    ELSE IF buf # <<>> /\ buf[Len(buf)].val = run.val
    THEN [buf EXCEPT ![Len(buf)].len = @ + run.len]
    ELSE Append(buf, run)

RECURSIVE RunsLen(_)
RunsLen(buf) == IF buf = <<>> THEN 0 ELSE buf[1].len + RunsLen(Tail(buf))

\* the first n bytes of a buffer
RECURSIVE TakeBytes(_, _)
TakeBytes(buf, n) ==
    IF n = 0 \/ buf = <<>> THEN <<>>
    ELSE IF buf[1].len <= n THEN <<buf[1]>> \o TakeBytes(Tail(buf), n - buf[1].len)
    ELSE <<[len |-> n, val |-> buf[1].val]>>

\* lines 57-63 and 77-83: the level the registers select
Priority(pm, bp) == IF pm = "Active" THEN 0 ELSE bp \div 16

\* `buf[written..written + len].copy_from_slice(bytes)` on a buffer filled
\* up to `at`
CopyAt(buf, at, bytes) == AppendRun(TakeBytes(buf, at), bytes)

\* Writer::write, lines 33-42
Writer_write(w, bytes) ==
    LET available == w.grant.len - w.written
    IN  IF bytes.len <= available
        THEN [w EXCEPT !.grant.buf = CopyAt(@, w.written, bytes),
                       !.written = @ + bytes.len]
        ELSE [w EXCEPT !.written = w.grant.len]

\* a release that commits an overfull region as fully written
CommitLen_Saturates(w) == IF w.written < w.grant.len THEN w.written ELSE w.grant.len

\* a release that commits a region filled to its last byte
CommitLen_Inclusive(w) == IF w.written <= w.grant.len THEN w.written ELSE 0

\* lines 87-93: the length release passes to FrameGrantW::commit
CommitLen(w) == IF w.written < w.grant.len THEN w.written ELSE 0

\* the execution context that is running
Top == stack[Len(stack)]

SetTop(ctx) == [stack EXCEPT ![Len(stack)] = ctx]

ThreadContext ==
    [hw |-> 256, pc |-> "idle", held |-> 0, i |-> 0,
     savedPrimask |-> "Active", savedBasepri |-> 0]

\* the firmware before init: lines 48-53 and 102
DeviceIdle ==
    /\ INIT = FALSE
    /\ PRODS = [l \in Levels |-> None]
    /\ WRITERS = [l \in Levels |-> None]
    /\ primask = "Active"
    /\ basepri = 0
    /\ stack = <<ThreadContext>>
    /\ halted = FALSE
    /\ lastCommit = None
    /\ calls = 0
    /\ acquired = None

\* the host side, not running
StreamIdle ==
    /\ input = <<>>
    /\ pos = 0
    /\ rawLocs = [i \in TableIndices |-> LocationOf(i)]
    /\ locs = None
    /\ frames = <<>>
    /\ data = <<>>
    /\ events = <<>>
    /\ pc = "start"
    /\ consumed = 0
    /\ last = "none"
    /\ eofSeen = FALSE
    /\ lastCut = 0

DeviceInit == DeviceIdle /\ StreamIdle /\ ElfIdle

\* a second initialisation that does not test the flag
INIT_swap_AlwaysFirst == FALSE

\* `INIT.swap(true, Ordering::SeqCst)`, line 103: the value the flag had
INIT_swap == INIT

\* init up to its loop, lines 101-105: the flag is swapped, and a call that
\* finds it set panics
Init_call ==
    /\ ~halted
    /\ Top.pc = "idle"
    /\ IF INIT_swap
       THEN halted' = TRUE /\ UNCHANGED <<INIT, stack>>
       ELSE /\ INIT' = TRUE
            /\ stack' = SetTop([Top EXCEPT !.pc = "init", !.i = 0])
            /\ UNCHANGED halted
    /\ UNCHANGED <<PRODS, WRITERS, primask, basepri, lastCommit, calls, acquired>>
    /\ UNCHANGED <<streamVars, elfVars>>

\* one pass of the loop of init, lines 106-110: `PRODS[i] = Some(prod)`; the
\* producers are those of the array the call was given
Init_install ==
    /\ ~halted
    /\ Top.pc = "init"
    /\ PRODS' = [PRODS EXCEPT ![Top.i] =
            Some([id |-> Top.i, owner |-> Len(stack), granted |-> FALSE])]
    /\ stack' = SetTop(IF Top.i + 1 < PRIO_LEVELS
                       THEN [Top EXCEPT !.i = @ + 1]
                       ELSE [Top EXCEPT !.pc = "idle", !.i = 0])
    /\ UNCHANGED <<INIT, WRITERS, primask, basepri, halted, lastCommit, calls, acquired>>
    /\ UNCHANGED <<streamVars, elfVars>>

\* a queue that hands out a second grant while one is outstanding
grant_ok_Reentrant(prod, room) == room

\* `prod.grant(1024).ok()`, line 67: the queue refuses a grant while one is
\* outstanding (GrantInProgress) or when it has no room for it
grant_ok(prod, room) == ~prod.granted /\ room

\* Logger::acquire, lines 56-74; `room` is whether the queue has room for
\* the grant
acquire ==
    /\ ~halted
    /\ Top.pc = "idle"
    /\ calls < MaxCalls
    /\ calls' = calls + 1
    /\ \E room \in BOOLEAN :
        LET priority == Priority(primask, basepri)
            prod == PRODS[priority]
        IN  IF IsSome(prod) /\ grant_ok(Unwrap(prod), room)
            THEN /\ acquired' = Some([level |-> priority, writer |-> TRUE])
                 /\ PRODS' = [PRODS EXCEPT ![priority] = Some([Unwrap(prod) EXCEPT !.granted = TRUE])]
                 /\ WRITERS' = [WRITERS EXCEPT ![priority] =
                        Some([written |-> 0,
                              grant |-> [len |-> GRANT_SIZE, buf |-> <<>>, prod |-> priority],
                              attempted |-> 0, slices |-> <<>>])]
                 /\ stack' = SetTop([Top EXCEPT !.pc = "logging", !.held = priority])
            ELSE /\ acquired' = Some([level |-> priority, writer |-> FALSE])
                 /\ UNCHANGED <<PRODS, WRITERS, stack>>
    /\ UNCHANGED <<INIT, primask, basepri, halted, lastCommit>>
    /\ UNCHANGED <<streamVars, elfVars>>

\* Writer::write through the pointer acquire returned, lines 33-42
write ==
    /\ ~halted
    /\ Top.pc = "logging"
    /\ calls < MaxCalls
    /\ IsSome(WRITERS[Top.held])
    /\ \E bytes \in Slices :
        LET w == Writer_write(Unwrap(WRITERS[Top.held]), bytes)
        IN  WRITERS' = [WRITERS EXCEPT ![Top.held] =
                Some([w EXCEPT !.attempted = @ + bytes.len,
                               !.slices = Append(@, bytes)])]
    /\ calls' = calls + 1
    /\ UNCHANGED <<INIT, PRODS, primask, basepri, stack, halted, lastCommit, acquired>>
    /\ UNCHANGED <<streamVars, elfVars>>

\* Logger::release, lines 76-97; the debug assertion of line 95 stops a
\* debug build and is compiled out of a release build
release ==
    /\ ~halted
    /\ Top.pc = "logging"
    /\ LET priority == Priority(primask, basepri)
       IN  IF IsSome(WRITERS[priority])
           THEN LET writer == Unwrap(WRITERS[priority])
                    used == CommitLen(writer)
                IN  /\ WRITERS' = [WRITERS EXCEPT ![priority] = None]
                    /\ PRODS' = [PRODS EXCEPT ![writer.grant.prod] =
                            Some([Unwrap(@) EXCEPT !.granted = FALSE])]
                    /\ lastCommit' = Some(
                            [level |-> priority, prod |-> writer.grant.prod, used |-> used,
                             bytes |-> TakeBytes(writer.grant.buf, used),
                             cap |-> writer.grant.len, attempted |-> writer.attempted,
                             slices |-> writer.slices])
                    /\ UNCHANGED halted
           ELSE /\ halted' \in BOOLEAN
                /\ UNCHANGED <<WRITERS, PRODS, lastCommit>>
    /\ stack' = SetTop([Top EXCEPT !.pc = "idle"])
    /\ UNCHANGED <<INIT, primask, basepri, calls, acquired>>
    /\ UNCHANGED <<streamVars, elfVars>>

\* the running context masks or unmasks interrupts between log calls
SetMask ==
    /\ ~halted
    /\ Top.pc = "idle"
    /\ \E pm \in {"Active", "Inactive"}, bp \in BasepriValues :
        /\ <<pm, bp>> # <<primask, basepri>>
        /\ primask' = pm
        /\ basepri' = bp
    /\ UNCHANGED <<INIT, PRODS, WRITERS, stack, halted, lastCommit, calls, acquired>>
    /\ UNCHANGED <<streamVars, elfVars>>

\* an interrupt the masks let through preempts the running context
Preempt ==
    /\ ~halted
    /\ Len(stack) < MaxDepth
    /\ primask = "Active"
    /\ \E p \in IrqPriorities :
        /\ p < Top.hw
        /\ basepri = 0 \/ p < basepri
        /\ stack' = Append(stack,
                [hw |-> p, pc |-> "idle", held |-> 0, i |-> 0,
                 savedPrimask |-> primask, savedBasepri |-> basepri])
    /\ UNCHANGED <<INIT, PRODS, WRITERS, primask, basepri, halted, lastCommit, calls, acquired>>
    /\ UNCHANGED <<streamVars, elfVars>>

\* the handler returns, having restored the masks it found
Return ==
    /\ ~halted
    /\ Len(stack) > 1
    /\ Top.pc = "idle"
    /\ primask' = Top.savedPrimask
    /\ basepri' = Top.savedBasepri
    /\ stack' = SubSeq(stack, 1, Len(stack) - 1)
    /\ UNCHANGED <<INIT, PRODS, WRITERS, halted, lastCommit, calls, acquired>>
    /\ UNCHANGED <<streamVars, elfVars>>

DeviceNext == Init_call \/ Init_install \/ acquire \/ write \/ release \/ SetMask \/ Preempt \/ Return

DeviceSpec == DeviceInit /\ [][DeviceNext]_vars

-----------------------------------------------------------------------------
(* Actions of parse *)

\* the images: any bytes, an object file without a `.defmt` section, or one
\* with it, each with its version symbols
ParseInit ==
    /\ elf \in [wellFormed : BOOLEAN, hasSection : BOOLEAN, versions : VersionTables]
    /\ elf.hasSection => elf.wellFormed
    /\ ppc = "open"
    /\ map = <<>>
    /\ version = None
    /\ marker = [n \in MarkerNames |-> None]
    /\ ret = None
    /\ vnext = 0
    /\ seen = {}
    /\ LocIdle
    /\ StreamIdle
    /\ DeviceIdle

\* lines 20-39: the image is parsed and the section looked up
Parse_open ==
    /\ ppc = "open"
    /\ IF ~elf.wellFormed
       THEN /\ ret' = Some(Err("object::File::parse", <<>>))
            /\ ppc' = "done"
       ELSE IF section_by_name(elf) = None
       THEN /\ ret' = Some(Ok(None))
            /\ ppc' = "done"
       ELSE /\ ppc' = "scan"
            /\ ret' = None
    /\ map' = ParseLocals.map
    /\ version' = ParseLocals.version
    /\ marker' = ParseLocals.marker
    /\ UNCHANGED <<elf, vnext, seen>>
    /\ UNCHANGED <<streamVars, deviceVars, locVars>>

\* the symbols `elf.symbols()` can yield next: one without a name, a marker
\* or an interned string in the `.defmt` section, a symbol of either name
\* in another section, or the image's next version symbol, which is
\* absolute.  The images with two version symbols hold no interned strings.
SymbolsNext ==
    {[name |-> None, section_index |-> None, address |-> 1, kind |-> "other"]}
    \cup {[name |-> Some(<<n>>), section_index |-> Some(DefmtSection), address |-> a,
           kind |-> "other"] : n \in (IF elf.hasSection THEN MarkerNames ELSE {}), a \in MarkerAddrs}
    \cup {[name |-> Some(sym.name), section_index |-> Some(DefmtSection), address |-> sym.address,
           kind |-> "other"] :
            sym \in (IF elf.hasSection /\ Len(elf.versions) <= 1 THEN StringSymbols ELSE {})}
    \cup {[name |-> Some(<<n>>), section_index |-> Some(OtherSection), address |-> 1,
           kind |-> "other"] : n \in {"_defmt_trace_start", "a"}}
    \cup (IF vnext < Len(elf.versions)
          THEN {[name |-> Some(elf.versions[vnext + 1]), section_index |-> None,
                 address |-> 1, kind |-> "version"]}
          ELSE {})

\* one pass of the loop, lines 40-82
Parse_symbol ==
    /\ ppc = "scan"
    /\ \E entry \in SymbolsNext :
        LET st == ScanEntry([map |-> map, version |-> version, marker |-> marker, ret |-> None],
                            entry)
        IN  /\ map' = st.map
            /\ version' = st.version
            /\ marker' = st.marker
            /\ ret' = st.ret
            /\ ppc' = IF st.ret = None THEN "scan" ELSE "done"
            /\ vnext' = IF entry.kind = "version" THEN vnext + 1 ELSE vnext
            /\ seen' = IF entry.name # None /\ entry.section_index = Some(DefmtSection)
                       THEN seen \cup {[name |-> Unwrap(entry.name), address |-> entry.address]}
                       ELSE seen
    /\ UNCHANGED elf
    /\ UNCHANGED <<streamVars, deviceVars, locVars>>

\* the symbols are exhausted: lines 84-99
Parse_finish ==
    /\ ppc = "scan"
    /\ vnext = Len(elf.versions)
    /\ ret' = Some(AfterSymbols([map |-> map, version |-> version, marker |-> marker]))
    /\ ppc' = "done"
    /\ UNCHANGED <<elf, map, version, marker, vnext, seen>>
    /\ UNCHANGED <<streamVars, deviceVars, locVars>>

ParseNext == Parse_open \/ Parse_symbol \/ Parse_finish

ParseSpec == ParseInit /\ [][ParseNext]_vars

-----------------------------------------------------------------------------
(* Actions of get_locations *)

\* the live-symbol sets of the Tables
LiveSets == {{<<"x">>}, {<<"x">>, <<"y">>}}

LocInit ==
    /\ live_syms \in LiveSets
    /\ lpc = "units"
    /\ unit = [n |-> 0, line_program |-> TRUE]
    /\ segments = <<>>
    /\ depth = 0
    /\ loc_map = <<>>
    /\ lret = None
    /\ die = None
    /\ entries = 0
    /\ resolved = 0
    /\ ancestry = <<>>
    /\ ParseIdle
    /\ StreamIdle
    /\ DeviceIdle

\* an entry of a tag the loop does not look at, and the root of a unit
OtherDie ==
    [tag |-> "DW_TAG_subprogram", name |-> None, linkage_name |-> None, decl_file |-> None,
     decl_line |-> None, location |-> None, strings_ok |-> TRUE]
RootDie == [OtherDie EXCEPT !.tag = "DW_TAG_compile_unit"]

NamespaceDies ==
    {[OtherDie EXCEPT !.tag = "DW_TAG_namespace", !.name = n] :
        n \in {Some(x) : x \in NamespaceNames} \cup {None}}

\* a variable entry with the five attributes
Variable(name, linkage_name, decl_file, decl_line, location) ==
    [tag |-> "DW_TAG_variable", name |-> Some(name), linkage_name |-> Some(linkage_name),
     decl_file |-> Some(decl_file), decl_line |-> Some(decl_line),
     location |-> Some(location), strings_ok |-> TRUE]

Address(a) == [op |-> "Address", address |-> a]
Deref == [op |-> "Deref", address |-> 0]

\* the location expressions of the images: none holds an absolute address,
\* or the address is 1 or 2, after another operation or not
Expressions == {<<Deref>>, <<Address(1)>>, <<Deref, Address(2)>>}

\* the variable entries of the images: log call sites of the symbols x and
\* y, with and without the `@` suffix, and variables that are none
VariableDies ==
    {Variable(LogStatement, <<id, At, "7">>, f, l, x) :
        id \in {"x", "y"}, f \in {0, 1}, l \in {10, 20}, x \in Expressions}
    \cup {Variable(LogStatement, <<"x">>, 1, 10, <<Address(1)>>),
          Variable(LogStatement, <<"x", At, "7">>, 2, 10, <<Address(1)>>),
          Variable("COUNTER", <<"x", At, "7">>, 1, 10, <<Address(1)>>),
          [Variable(LogStatement, <<"y", At, "7">>, 1, 10, <<Address(1)>>)
                EXCEPT !.location = None],
          [Variable(LogStatement, <<"y", At, "7">>, 1, 10, <<Address(1)>>)
                EXCEPT !.strings_ok = FALSE]}

Dies == {OtherDie} \cup NamespaceDies \cup VariableDies

\* a log call site: a variable entry of the reserved name with the five
\* attributes and readable strings
IsCallSite(e) ==
    /\ e.tag = "DW_TAG_variable"
    /\ e.strings_ok
    /\ e.name = Some(LogStatement)
    /\ IsSome(e.linkage_name) /\ IsSome(e.decl_file)
    /\ IsSome(e.decl_line) /\ IsSome(e.location)

\* the identifier of a call site: its linkage name up to the `@`
IdentifierOf(e) == <<Unwrap(e.linkage_name)[1]>>

IsAddressOp(o) == o.op = "Address"

\* a live call site whose expression holds an address and whose file index
\* the unit's line program knows
IsResolvedSite(e, u, live) ==
    /\ IsCallSite(e)
    /\ IdentifierOf(e) \in live
    /\ SelectSeq(Unwrap(e.location), IsAddressOp) # <<>>
    /\ u.line_program /\ Unwrap(e.decl_file) \in DOMAIN FileEntries

\* the steps `cursor.next_dfs()` can take from the entry it yielded last: to
\* its first child when it is not a variable, to its next sibling, or up
DeltaDepths ==
    {d \in {1, 0, -1, -2} :
        /\ depth + d >= 1
        /\ depth + d <= MaxTreeDepth
        /\ d = 1 => Unwrap(die).tag # "DW_TAG_variable"}

\* `units.next()` yields no further unit: line 272
Units_end ==
    /\ lpc = "units"
    /\ lret' = Some(Ok(loc_map))
    /\ lpc' = "done"
    /\ UNCHANGED <<live_syms, unit, segments, depth, loc_map, die, entries, resolved, ancestry>>
    /\ UNCHANGED <<streamVars, deviceVars, parseVars>>

\* `units.next()` yields a unit: lines 149-158
Unit_begin ==
    /\ lpc = "units"
    /\ unit.n < MaxUnits
    /\ \E line_program \in BOOLEAN, empty \in BOOLEAN :
        /\ unit' = [n |-> unit.n + 1, line_program |-> line_program]
        /\ IF empty
           THEN /\ lret' = Some(Err("empty DWARF?", <<>>))
                /\ lpc' = "done"
                /\ UNCHANGED <<segments, depth, die, ancestry>>
           ELSE /\ segments' = <<>>
                /\ ancestry' = <<>>
                /\ depth' = 0
                /\ die' = Some(RootDie)
                /\ lpc' = "entries"
                /\ UNCHANGED lret
    /\ UNCHANGED <<live_syms, loc_map, entries, resolved>>
    /\ UNCHANGED <<streamVars, deviceVars, parseVars>>

\* the cursor yields an entry: one pass of the loop of lines 159-268
Entry_next ==
    /\ lpc = "entries"
    /\ entries < MaxEntries
    /\ \E delta_depth \in DeltaDepths, e \in Dies :
        LET st == VisitEntry([depth |-> depth, segments |-> segments, map |-> loc_map,
                              ret |-> None], delta_depth, e, unit, live_syms)
        IN  /\ depth' = st.depth
            /\ segments' = st.segments
            /\ loc_map' = st.map
            /\ lret' = st.ret
            /\ lpc' = IF st.ret = None THEN "entries" ELSE "done"
            /\ die' = Some(e)
            /\ resolved' = IF IsResolvedSite(e, unit, live_syms) THEN resolved + 1 ELSE resolved
            /\ ancestry' = Append(SubSeq(ancestry, 1, depth + delta_depth - 1),
                                  IF e.tag = "DW_TAG_namespace" THEN e.name ELSE None)
    /\ entries' = entries + 1
    /\ UNCHANGED <<live_syms, unit>>
    /\ UNCHANGED <<streamVars, deviceVars, parseVars>>

\* the cursor yields no further entry of the unit
Unit_end ==
    /\ lpc = "entries"
    /\ lpc' = "units"
    /\ UNCHANGED <<live_syms, unit, segments, depth, loc_map, lret, die, entries, resolved, ancestry>>
    /\ UNCHANGED <<streamVars, deviceVars, parseVars>>

LocNext == Units_end \/ Unit_begin \/ Entry_next \/ Unit_end

LocSpec == LocInit /\ [][LocNext]_vars

-----------------------------------------------------------------------------
(* Actions of the stream loop *)

StreamInit ==
    /\ input \in SeqsUpTo(Bytes, MaxLen)
    /\ rawLocs \in LocationMaps
    /\ pos = 0
    /\ locs = None
    /\ frames = <<>>
    /\ data = <<>>
    /\ events = <<>>
    /\ pc = "start"
    /\ consumed = 0
    /\ last = "none"
    /\ eofSeen = FALSE
    /\ lastCut = 0
    /\ DeviceIdle
    /\ ElfIdle

\* lines 54-59: the precheck, once, before the loop
Startup ==
    /\ pc = "start"
    /\ locs' = Precheck(rawLocs)
    /\ pc' = "read"
    /\ UNCHANGED <<input, pos, rawLocs, frames, data, events, consumed, last, eofSeen, lastCut>>
    /\ UNCHANGED <<deviceVars, elfVars>>

\* the byte counts reader.read may return: at least one byte while the
\* reader has input, 0 once it is exhausted
ReadSizes ==
    IF pos < Len(input) THEN 1..Min(READ_BUFFER_SIZE, Len(input) - pos) ELSE {0}

\* lines 74-78: read, append to the buffer, open the scan window
Read ==
    /\ pc = "read"
    /\ \E n \in ReadSizes :
        /\ frames' = frames \o SubSeq(input, pos + 1, pos + n)
        /\ data' = frames'
        /\ pos' = pos + n
        /\ eofSeen' = (eofSeen \/ n = 0)
        /\ lastCut' = pos
    /\ pc' = "scan"
    /\ UNCHANGED <<input, rawLocs, locs, events, consumed, last>>
    /\ UNCHANGED <<deviceVars, elfVars>>

\* line 74: `reader.read(&mut buf)?` returns the reader's error
ReadErr ==
    /\ pc = "read"
    /\ pc' = "err_io"
    /\ UNCHANGED <<input, pos, rawLocs, locs, frames, data, events, consumed, last, eofSeen, lastCut>>
    /\ UNCHANGED <<deviceVars, elfVars>>

\* lines 79-131: one pass of the while loop
ScanFrame ==
    /\ pc = "scan"
    /\ IsSome(Position(data))
    /\ SetLoopState(LoopPass(LoopState, locs))
    /\ UNCHANGED <<input, pos, rawLocs, locs, eofSeen, lastCut>>
    /\ UNCHANGED <<deviceVars, elfVars>>

\* lines 79, 132-138: no zero byte is left in the window
ScanExit ==
    /\ pc = "scan"
    /\ ~IsSome(Position(data))
    /\ SetLoopState(AfterLoop(LoopState))
    /\ UNCHANGED <<input, pos, rawLocs, locs, eofSeen, lastCut>>
    /\ UNCHANGED <<deviceVars, elfVars>>

StreamNext == Startup \/ Read \/ ReadErr \/ ScanFrame \/ ScanExit

StreamSpec == StreamInit /\ [][StreamNext]_vars

\* the loop is a running thread: it takes its next step whenever it has
\* one; the reader's failure is not scheduled
StreamFair == StreamSpec /\ WF_vars(Startup) /\ WF_vars(Read) /\ WF_vars(ScanFrame) /\ WF_vars(ScanExit)

TypeOK ==
    /\ pos \in 0..Len(input)
    /\ pc \in {"start", "read", "scan", "err_io", "err_malformed", "panic"}
    /\ consumed \in 0..pos


-----------------------------------------------------------------------------
(* Reference definitions used by the properties of the stream loop *)

\* lines 78-138 run to the end of one read cycle
RECURSIVE RunLoop(_, _)
RunLoop(st, ls) ==
    IF st.pc # "scan" THEN st
    ELSE IF IsSome(Position(st.data)) THEN RunLoop(LoopPass(st, ls), ls)
    ELSE AfterLoop(st)

\* lines 73-138 with the whole of `bytes` delivered by the first read
OneRead(bytes, ls) ==
    RunLoop([frames |-> bytes, data |-> bytes, events |-> <<>>, pc |-> "scan",
             consumed |-> 0, last |-> "none"], ls)

\* the bytes delivered so far
Delivered == SliceTo(input, pos)

\* the zero-free run of input bytes that ends just before position k
RECURSIVE FrameStart(_)
FrameStart(k) == IF k = 1 \/ input[k - 1] = 0 THEN k ELSE FrameStart(k - 1)

FrameEndingAt(k) == SubSeq(input, FrameStart(k), k - 1)

\* how the two decoders classify a frame
Classify(frame) ==
    IF frame = <<>> THEN "empty"
    ELSE IF ~rzcobs_decode(frame).ok THEN "framing"
    ELSE table_decode(rzcobs_decode(frame).msg).tag

\* the positions of the zero bytes delivered so far
Terminators == {k \in 1..pos : input[k] = 0}

\* the pass of the while loop that is about to run, if any
AtFrame == pc = "scan" /\ IsSome(Position(data))
CurEnd == Unwrap(Position(data))
CurKind == Classify(SliceTo(data, CurEnd))
CurRest == SliceFrom(data, CurEnd + 1)

-----------------------------------------------------------------------------
(* C1: whatever the chunking of the stream, when a read cycle ends (or the *)
(* loop ends on a Malformed frame) the emitted events and the outcome are  *)
(* those of delivering all the bytes read so far in a single read.         *)
C1_ChunkingInvariance ==
    pc \in {"read", "err_malformed", "panic"} =>
        LET one == OneRead(Delivered, locs)
        IN  events = one.events /\ pc = one.pc

\* two frames emitted, the second one split one byte before its zero byte
C1_Witness ==
    /\ pc = "read" /\ input = <<1, 1, 0, 1, 0>> /\ pos = 5 /\ lastCut = 4
    /\ Len(events) = 2

(* C2: at the end of every read cycle the buffer is exactly the bytes read *)
(* so far that follow the last consumed zero byte.                         *)
C2_NoByteLostOrDuplicated ==
    pc = "read" =>
        /\ consumed = 0 \/ input[consumed] = 0
        /\ frames = SubSeq(input, consumed + 1, pos)
        /\ SliceTo(input, consumed) \o frames = Delivered

\* a partial frame is carried over after a frame has been consumed
C2_Witness ==
    /\ pc = "read" /\ consumed > 0 /\ frames # <<>> /\ lastCut > 0 /\ pos = Len(input)

(* C3 (as claimed): an UnexpectedEof never stalls the stream: once the     *)
(* reader has delivered everything and the loop has gone round again,      *)
(* every delivered frame that decodes successfully and has no Malformed    *)
(* frame before it has been emitted.                                       *)
C3_EofNeverStalls ==
    (pc = "read" /\ pos = Len(input) /\ eofSeen) =>
        \A k \in Terminators :
            (/\ Classify(FrameEndingAt(k)) = "Ok"
             /\ \A j \in Terminators : j < k => Classify(FrameEndingAt(j)) # "Malformed")
            => \E i \in 1..Len(events) : events[i].endPos = k

(* C4 (as claimed): once read has reported the end of input, the loop      *)
(* eventually stops.                                                       *)
C4_StopsAtEndOfInput ==
    eofSeen ~> (pc \notin {"start", "read", "scan"})

(* C5: events are emitted in the order of their frames' terminating zero   *)
(* bytes, each frame at most once, and each event is the decoding of the   *)
(* frame that ends at its zero byte.                                       *)
C5_EmissionOrder ==
    /\ \A i, j \in 1..Len(events) : i < j => events[i].endPos < events[j].endPos
    /\ \A i \in 1..Len(events) :
        LET k == events[i].endPos
        IN  /\ k \in Terminators
            /\ Classify(FrameEndingAt(k)) = "Ok"
            /\ events[i].index = table_decode(rzcobs_decode(FrameEndingAt(k)).msg).index
            /\ events[i].args = table_decode(rzcobs_decode(FrameEndingAt(k)).msg).args

\* two events of two frames that arrived in separate reads
C5_Witness ==
    /\ Len(events) = 2 /\ events[1].endPos = 2 /\ events[2].endPos = 5
    /\ lastCut = 3 /\ pc = "read"

(* C6: on UnexpectedEof nothing is emitted, the read cycle ends, and the   *)
(* buffer kept is the frame, its zero byte and every byte after it.        *)
C6_EofKeepsFrame ==
    [][(AtFrame /\ CurKind = "UnexpectedEof") =>
        /\ events' = events
        /\ pc' = "read"
        /\ consumed' = consumed
        /\ frames' = data
        /\ frames' = SubSeq(input, consumed + 1, pos)
        /\ SliceTo(frames', CurEnd + 1) = Append(SliceTo(data, CurEnd), 0)]_vars

\* the stream [2, 0]: the buffer is [2, 0] again and nothing was emitted
C6_Witness ==
    /\ input = <<2, 0>> /\ pos = 2 /\ pc = "read" /\ last = "eof"
    /\ frames = <<2, 0>> /\ events = <<>>

(* C7: a frame the frame decoder rejects emits nothing, exactly it and its *)
(* zero byte are consumed, the loop goes on, and a later zero-terminated   *)
(* frame in the buffer is scanned in the same read cycle.                  *)
C7_FramingErrorSkipsOneFrame ==
    [][(AtFrame /\ CurKind = "framing") =>
        /\ events' = events
        /\ consumed' = consumed + CurEnd + 1
        /\ pc' \in {"scan", "read"}
        /\ IsSome(Position(CurRest)) => (pc' = "scan" /\ data' = CurRest)
        /\ pc' = "read" => frames' = CurRest]_vars

\* one read delivers a rejected frame and then a good one, which is emitted
C7_Witness ==
    /\ input = <<3, 0, 1, 0>> /\ pos = 4 /\ lastCut = 0 /\ pc = "read"
    /\ Len(events) = 1 /\ events[1].endPos = 4

(* C8: a Malformed result ends the loop with an error at that frame;       *)
(* nothing is emitted for it or after it, earlier events stay as they are. *)
C8_MalformedIsFatal ==
    [][/\ (AtFrame /\ CurKind = "Malformed") => (pc' = "err_malformed" /\ events' = events)
       /\ pc = "err_malformed" => (pc' = "err_malformed" /\ events' = events)]_vars

\* a good frame waits in the buffer behind the Malformed one, never emitted
C8_Witness ==
    /\ input = <<2, 2, 0, 1, 0>> /\ pos = 5 /\ pc = "err_malformed"
    /\ events = <<>> /\ frames = input

\* the file an event carries, against the file Locations stores
FileAsNormalised(shown, stored) ==
    \/ /\ shown = stored
       /\ ~IsPrefix(current_dir.comps, stored.comps)
    \/ /\ ~shown.absolute
       /\ current_dir.comps \o shown.comps = stored.comps

(* C9 (amended): the precheck decides once: if a table index has no        *)
(* Locations entry every event is bare; otherwise every event carries the  *)
(* stored module, the low 32 bits of the stored line and the stored file   *)
(* made relative to the current directory when it lies under it, and the   *)
(* lookup never fails.                                                     *)
C9_LocationAttachment ==
    pc # "start" =>
        /\ pc # "panic"
        /\ (locs = None) <=> (\E idx \in TableIndices : idx \notin DOMAIN rawLocs)
        /\ locs # None => locs = Some(rawLocs)
        /\ \A i \in 1..Len(events) :
            LET e == events[i]
            IN  IF locs = None
                THEN e.file = None /\ e.line = None /\ e.module = None
                ELSE /\ e.index \in DOMAIN rawLocs
                     /\ e.module = Some(rawLocs[e.index].module)
                     /\ e.line = Some(rawLocs[e.index].line.lo)
                     /\ IsSome(e.file)
                     /\ FileAsNormalised(Unwrap(e.file), rawLocs[e.index].file)

\* an event with a location whose file lies under the current directory
C9_Witness ==
    /\ locs # None /\ Len(events) = 1 /\ events[1].index = 0
    /\ events[1].file = Some([absolute |-> FALSE, comps |-> <<"src", "main.rs">>])

(* C9 (as claimed): with complete Locations every event carries the file,  *)
(* line and module stored under its frame's index.                         *)
C9_CarriesStoredLocation ==
    locs # None =>
        \A i \in 1..Len(events) :
            LET e == events[i]
            IN  /\ e.file = Some(rawLocs[e.index].file)
                /\ e.line = Some(rawLocs[e.index].line.lo)
                /\ rawLocs[e.index].line.hi = 0
                /\ e.module = Some(rawLocs[e.index].module)


-----------------------------------------------------------------------------
(* Properties of the device-side logger *)

\* the writers in flight
InFlight == {l \in Levels : IsSome(WRITERS[l])}

(* C10 (amended): when the bytes attempted between acquire and release     *)
(* exceed the 1024-byte region, the write that does not fit is dropped     *)
(* whole, `written` is set to the region's capacity, and release commits   *)
(* zero bytes: the message is discarded.                                   *)
C10_OverflowCommitsNothing ==
    /\ \A l \in InFlight :
        LET w == Unwrap(WRITERS[l])
        IN  w.attempted > w.grant.len =>
                /\ w.written = w.grant.len
                /\ RunsLen(w.grant.buf) < w.attempted
                /\ RunsLen(w.grant.buf) <= w.grant.len
    /\ IsSome(lastCommit) =>
        LET c == Unwrap(lastCommit)
        IN  c.attempted > c.cap => (c.used = 0 /\ c.bytes = <<>>)

\* a 624-byte write fits, a second one does not, and release commits 0
C10_Witness ==
    /\ IsSome(lastCommit)
    /\ Unwrap(lastCommit).attempted = 1248
    /\ Unwrap(lastCommit).cap = GRANT_SIZE
    /\ Unwrap(lastCommit).used = 0

(* C10 (as claimed): when the bytes attempted exceed the region, release   *)
(* commits the region as fully written: the commit length is the region's  *)
(* capacity.                                                               *)
C10_OverflowCommitsFullRegion ==
    IsSome(lastCommit) =>
        LET c == Unwrap(lastCommit)
        IN  c.attempted > c.cap => c.used = c.cap

\* the bytes of a sequence of slices, one after the other in call order
RECURSIVE Concat(_)
Concat(ss) ==
    IF ss = <<>> THEN <<>>
    ELSE LET rest == Concat(Tail(ss))
         IN  IF rest # <<>> /\ rest[1].val = ss[1].val
             THEN <<[len |-> ss[1].len + rest[1].len, val |-> ss[1].val]>> \o Tail(rest)
             ELSE <<ss[1]>> \o rest

(* C11: when the writes between an acquire and its release total at most   *)
(* the region's capacity, release commits exactly the number of bytes      *)
(* written and the committed bytes are the written slices one after the    *)
(* other in call order; `written` never exceeds the region's capacity.     *)
C11_CommitsWhatWasWritten ==
    /\ \A l \in InFlight :
        Unwrap(WRITERS[l]).written <= Unwrap(WRITERS[l]).grant.len
    /\ IsSome(lastCommit) =>
        LET c == Unwrap(lastCommit)
        IN  c.attempted <= c.cap =>
                /\ c.used = c.attempted
                /\ c.bytes = Concat(c.slices)

\* the contexts that hold the pointer acquire returned for level l
Holders(l) == {k \in 1..Len(stack) : stack[k].pc = "logging" /\ stack[k].held = l}

\* every writer in flight is the writer of exactly one context, stands on
\* the grant of its own level's producer, and no context holds a pointer
\* to a writer that is gone
OneWriterPerLevel ==
    \A l \in Levels :
        /\ Cardinality(Holders(l)) = (IF IsSome(WRITERS[l]) THEN 1 ELSE 0)
        /\ IsSome(WRITERS[l]) =>
            /\ Unwrap(WRITERS[l]).grant.prod = l
            /\ IsSome(PRODS[l]) /\ Unwrap(PRODS[l]).granted

\* a step changes a writer in flight only on behalf of the context that
\* holds it, and that context is the running one
OnlyHolderTouches ==
    \A l \in Levels :
        (IsSome(WRITERS[l]) /\ WRITERS'[l] # WRITERS[l]) =>
            /\ Top.pc = "logging" /\ Top.held = l
            /\ \/ WRITERS'[l] = None
               \/ /\ Unwrap(WRITERS'[l]).grant.prod = Unwrap(WRITERS[l]).grant.prod
                  /\ Unwrap(WRITERS'[l]).attempted > Unwrap(WRITERS[l]).attempted
                  /\ IsPrefix(Unwrap(WRITERS[l]).slices, Unwrap(WRITERS'[l]).slices)

\* a commit is the commit of the grant the releasing context acquired
CommitsOwnGrant ==
    (lastCommit' # lastCommit) =>
        /\ Top.pc = "logging"
        /\ IsSome(WRITERS[Top.held])
        /\ WRITERS'[Top.held] = None
        /\ LET c == Unwrap(lastCommit')
               w == Unwrap(WRITERS[Top.held])
           IN  /\ c.level = Top.held
               /\ c.prod = w.grant.prod
               /\ c.slices = w.slices
               /\ c.attempted = w.attempted

(* C12: at most one writer is active per priority level at any instant:    *)
(* under any nesting of preempting contexts that call acquire, write and   *)
(* release, a writer in flight in WRITERS[p] is never replaced or aliased  *)
(* by a second acquire at level p before its own release, and each release *)
(* commits the grant obtained by the matching acquire.                     *)
C12_OneWriterPerLevel ==
    /\ []OneWriterPerLevel
    /\ [][OnlyHolderTouches /\ CommitsOwnGrant]_vars

\* a handler preempted the thread's log at level 0, its own acquire at
\* level 0 returned no writer, and the thread's writer is as it was
C12_Witness ==
    /\ Len(stack) = 2
    /\ stack[1].pc = "logging" /\ stack[1].held = 0
    /\ Top.pc = "idle"
    /\ acquired = Some([level |-> 0, writer |-> FALSE])
    /\ IsSome(WRITERS[0])
    /\ Unwrap(WRITERS[0]).written = 400

\* the contexts inside the loop of init
Installing == {k \in 1..Len(stack) : stack[k].pc = "init"}

\* nothing is installed before the flag is set; once the call that set it
\* has left its loop all sixteen producers are installed; and the producers
\* installed are those of one call, the call that installed PRODS[0]
InstalledOnce ==
    /\ ~INIT => \A l \in Levels : PRODS[l] = None
    /\ (INIT /\ Installing = {}) => \A l \in Levels : IsSome(PRODS[l])
    /\ Cardinality(Installing) <= 1
    /\ \A l \in Levels :
        IsSome(PRODS[l]) =>
            /\ Unwrap(PRODS[l]).id = l
            /\ IsSome(PRODS[0])
            /\ Unwrap(PRODS[l]).owner = Unwrap(PRODS[0]).owner

\* a call of init that finds the flag set panics and installs nothing
LaterInitFails ==
    (INIT /\ Init_call) => (halted' /\ INIT' /\ PRODS' = PRODS /\ Installing' = Installing)

\* an installed producer is never replaced by another
InstalledStay ==
    (PRODS' # PRODS) => \A l \in Levels :
        IsSome(PRODS[l]) =>
            /\ IsSome(PRODS'[l])
            /\ Unwrap(PRODS'[l]).id = Unwrap(PRODS[l]).id
            /\ Unwrap(PRODS'[l]).owner = Unwrap(PRODS[l]).owner

\* before the first init, acquire returns no writer and changes nothing
AcquireBeforeInit ==
    (~INIT /\ acquire) =>
        /\ IsSome(acquired') /\ ~Unwrap(acquired').writer
        /\ UNCHANGED <<INIT, PRODS, WRITERS, primask, basepri, stack, halted, lastCommit>>

(* C13: producer initialisation is one-time: the first init installs all   *)
(* sixteen producers; every later call of init, one racing with the first  *)
(* included, fails fatally, installs nothing and leaves the installed      *)
(* producers unchanged; before the first init, acquire at any level        *)
(* returns no writer and changes no state.                                 *)
C13_InitOnce ==
    /\ []InstalledOnce
    /\ [][LaterInitFails /\ InstalledStay /\ AcquireBeforeInit]_vars

\* a handler called init while the thread's init was in its loop: it
\* panicked, and the producers are the ones the thread had installed;
\* an acquire at level 2 had returned no writer
C13_Witness ==
    /\ halted
    /\ Len(stack) = 2
    /\ stack[1].pc = "init" /\ stack[1].i = 1
    /\ IsSome(PRODS[0]) /\ Unwrap(PRODS[0]).owner = 1
    /\ \A l \in Levels \ {0} : PRODS[l] = None
    /\ acquired = Some([level |-> 2, writer |-> FALSE])

-----------------------------------------------------------------------------
(* Properties of parse *)

\* the value of a version symbol: its name without the tag and the quotes
IsValueToken(t) == t \notin {Quote, VersionTag}
ValueOf(name) == SelectSeq(name, IsValueToken)

\* parse has returned from an object file
ParseDone == ppc = "done" /\ elf.wellFormed

\* the symbols of interned strings the `.defmt` section holds
SeenStrings == {sym \in seen : ~(Len(sym.name) = 1 /\ sym.name[1] \in MarkerNames)}

\* the marker symbols the `.defmt` section holds
SeenMarkers == {n \in MarkerNames : \E sym \in seen : sym.name = <<n>>}

\* parse returned the conflict of two versions
IsConflict(r) == r.tag = "Err" /\ r.error = "multiple defmt versions in use"

\* parse returned a Table
IsTable(r) == r.tag = "Ok" /\ r.value # None

\* the image holds one version symbol and the ten markers, and parse is done
OneVersionAllMarkers ==
    /\ ParseDone /\ elf.hasSection
    /\ Len(elf.versions) = 1
    /\ SeenMarkers = MarkerNames

\* a string symbol the loop meets for the first time is the map's entry at
\* its address from then on, until another symbol of that address is met
LastInsertWins ==
    (ppc = "scan" /\ seen' # seen) =>
        \A sym \in (seen' \ seen) \cap SeenStrings' :
            sym.address \in DOMAIN map' /\ map'[sym.address] = sym.name

(* C14 (amended): for an image with exactly one version symbol and the ten *)
(* marker symbols in the metadata section, parse succeeds; every symbol of *)
(* the section that is neither a marker nor a version symbol and whose     *)
(* address no other such symbol shares is in the map, keyed by its address *)
(* and mapped to its own name; of several such symbols at one address the  *)
(* map holds one, the one scanned last; whatever the order of the symbols. *)
C14_StringsInMap ==
    /\ [](OneVersionAllMarkers =>
            /\ IsTable(Unwrap(ret))
            /\ LET m == Unwrap(Unwrap(ret).value).map
               IN  /\ \A sym \in SeenStrings :
                        (\A other \in SeenStrings : other.address = sym.address => other = sym)
                            => (sym.address \in DOMAIN m /\ m[sym.address] = sym.name)
                   /\ DOMAIN m = {sym.address : sym \in SeenStrings}
                   /\ \A a \in DOMAIN m : [name |-> m[a], address |-> a] \in SeenStrings)
    /\ [][LastInsertWins]_vars

\* parse returned a Table for an image whose section holds two strings at
\* address 1 and one at address 2
C14_Witness ==
    /\ OneVersionAllMarkers
    /\ SeenStrings = StringSymbols
    /\ IsTable(Unwrap(ret))
    /\ Unwrap(Unwrap(ret).value).map[1] = <<"a">>

(* C14 (as claimed): for an image with exactly one version symbol and the  *)
(* ten marker symbols, parse succeeds and every symbol of the section that *)
(* is neither a marker nor a version symbol is in the map, keyed by its    *)
(* address and mapped to its own name, also when several share an address. *)
C14_EveryStringInMap ==
    OneVersionAllMarkers =>
        /\ IsTable(Unwrap(ret))
        /\ LET m == Unwrap(Unwrap(ret).value).map
           IN  \A sym \in SeenStrings :
                    sym.address \in DOMAIN m /\ m[sym.address] = sym.name

\* the image holds two version symbols of differing values
TwoDifferingVersions ==
    /\ Len(elf.versions) = 2
    /\ ValueOf(elf.versions[1]) # ValueOf(elf.versions[2])

\* the conflict error naming the values of the image's two version symbols
ConflictOfBoth ==
    Err("multiple defmt versions in use",
        <<ValueOf(elf.versions[1]), ValueOf(elf.versions[2])>>)

(* C15 (amended): for every image that has the metadata section and whose  *)
(* symbol table holds two version symbols with differing values, parse     *)
(* fails with the version-conflict error naming both values, first the     *)
(* earlier symbol's, whatever the order, the quoted or unquoted form of    *)
(* each, and whether or not the marker symbols are present.                *)
C15_ConflictNamesBoth ==
    (ParseDone /\ elf.hasSection /\ TwoDifferingVersions) => Unwrap(ret) = ConflictOfBoth

\* the conflict of a quoted version 2 met before an unquoted version 1, in
\* an image without the markers of the info range
C15_Witness ==
    /\ ParseDone /\ elf.hasSection
    /\ elf.versions = <<Quoted("2"), Unquoted("1")>>
    /\ SeenMarkers = MarkerNames \ {"_defmt_info_start", "_defmt_info_end"}
    /\ Unwrap(ret) = Err("multiple defmt versions in use", <<<<"2">>, <<"1">>>>)

(* C15 (as claimed): for every image whose symbol table holds two version  *)
(* symbols with differing values, parse fails with the version-conflict    *)
(* error naming both values.                                               *)
C15_ConflictInEveryImage ==
    (ParseDone /\ TwoDifferingVersions) => Unwrap(ret) = ConflictOfBoth

(* C16: for every image that lacks the metadata section parse returns      *)
(* Ok(None), never an error, whatever symbols the image holds: the symbols *)
(* are not read.                                                           *)
C16_NoSectionNoTable ==
    (ParseDone /\ ~elf.hasSection) =>
        /\ Unwrap(ret) = Ok(None)
        /\ vnext = 0 /\ seen = {} /\ map = <<>> /\ version = None

\* an image without the section and with conflicting version symbols
C16_Witness ==
    /\ ParseDone /\ ~elf.hasSection
    /\ TwoDifferingVersions
    /\ Unwrap(ret) = Ok(None)

(* C17: if the metadata section exists and parse does not end in a version *)
(* conflict, then it fails with the missing-symbol error and returns no    *)
(* Table when any of the ten marker symbols (as a symbol of the metadata   *)
(* section) or the version symbol is absent, and it succeeds only when all *)
(* eleven are present.                                                     *)
C17_MissingMetadata ==
    (ParseDone /\ elf.hasSection /\ ~IsConflict(Unwrap(ret))) =>
        IF SeenMarkers = MarkerNames /\ Len(elf.versions) >= 1
        THEN IsTable(Unwrap(ret))
        ELSE Unwrap(ret) = Err(MissingSymbol, <<>>)

\* the version and nine markers are present, the end of the info range is
\* not, and parse fails
C17_Witness ==
    /\ ParseDone /\ elf.hasSection
    /\ Len(elf.versions) = 1
    /\ SeenMarkers = MarkerNames \ {"_defmt_info_end"}
    /\ Unwrap(ret) = Err(MissingSymbol, <<>>)

(* C20: an image whose symbol table holds the version symbol twice with    *)
(* the same value, once quoted and once unquoted for instance, and all ten *)
(* marker symbols is extracted successfully: no version conflict is raised *)
(* when the later symbol's value equals the recorded one.                  *)
C20_SameVersionTwice ==
    (/\ ParseDone /\ elf.hasSection
     /\ Len(elf.versions) = 2
     /\ ValueOf(elf.versions[1]) = ValueOf(elf.versions[2])
     /\ SeenMarkers = MarkerNames)
        => IsTable(Unwrap(ret))

-----------------------------------------------------------------------------
(* Properties of get_locations *)

\* the cursor has just yielded an entry
Yielded == lpc = "entries" /\ entries' = entries + 1

\* the entry just yielded is a log call site the linker removed
DeadSite == IsCallSite(Unwrap(die')) /\ IdentifierOf(Unwrap(die')) \notin live_syms

(* C18: a variable entry named as a log call site whose identifier, the    *)
(* linkage name before the `@`, is not in the Table's live-symbol set is   *)
(* left out of the Locations map and discarded silently: it never makes    *)
(* get_locations fail, also when its location expression holds no          *)
(* absolute-address operation, its file index is zero, or its address is   *)
(* that of a live call site.                                               *)
C18_DeadSitesDiscarded ==
    [][(Yielded /\ DeadSite) =>
            (loc_map' = loc_map /\ lret' = None /\ lpc' = "entries" /\ resolved' = resolved)]_vars

\* a dead call site with file index zero at the address of a live call
\* site already in the map, and get_locations goes on
C18_Witness ==
    /\ live_syms = {<<"x">>}
    /\ die = Some(Variable(LogStatement, <<"y", At, "7">>, 0, 20, <<Address(1)>>))
    /\ DOMAIN loc_map = {1}
    /\ lpc = "entries" /\ lret = None

\* the first absolute address of an expression that has one
FirstAddress(expr) == SelectSeq(expr, IsAddressOp)[1].address

\* the entry just yielded is a live call site with an address and a file
ResolvedSite == IsResolvedSite(Unwrap(die'), unit, live_syms)

\* the path of the file of index 1: the compilation directory, the file's
\* directory and its name
MainRs == <<"/", "proj", "src", "main.rs">>

\* a live call site at an address the map holds fails with the error that
\* names the address, the Location the map held and the new one; at a free
\* address it is added to the map
CollisionIsFatal ==
    (Yielded /\ ResolvedSite) =>
        LET e == Unwrap(die')
            a == FirstAddress(Unwrap(e.location))
        IN  IF a \in DOMAIN loc_map
            THEN /\ lpc' = "done"
                 /\ lret' = Some(Err("BUG in DWARF variable filter: index collision for addr",
                        <<a, <<loc_map[a].file, loc_map[a].line>>, <<MainRs, Unwrap(e.decl_line)>>>>))
            ELSE /\ lret' = None
                 /\ DOMAIN loc_map' = DOMAIN loc_map \cup {a}
                 /\ loc_map'[a].file = MainRs /\ loc_map'[a].line = Unwrap(e.decl_line)
                 /\ \A b \in DOMAIN loc_map : loc_map'[b] = loc_map[b]

\* a returned map has one entry for each live call site resolved
OneEntryPerSite ==
    (lpc = "done" /\ Unwrap(lret).tag = "Ok") =>
        /\ Unwrap(lret).value = loc_map
        /\ Cardinality(DOMAIN loc_map) = resolved

(* C19: an address collision is fatal: when two live log call sites, of    *)
(* one compilation unit or of two, resolve to the same address,            *)
(* get_locations fails with an error naming the address and both          *)
(* Locations and returns no map; so every returned map has exactly one     *)
(* entry for each live call site resolved.                                 *)
C19_CollisionIsFatal ==
    /\ []OneEntryPerSite
    /\ [][CollisionIsFatal]_vars

\* a call site of the second unit collided with one of the first unit
C19_Witness ==
    /\ unit.n = 2 /\ entries = 2 /\ resolved = 2
    /\ lpc = "done"
    /\ lret = Some(Err("BUG in DWARF variable filter: index collision for addr",
                <<2, <<MainRs, 10>>, <<MainRs, 20>>>>))

\* the names of the named namespaces among the ancestors of the entry
\* yielded last, outermost first
AncestorNames(anc) ==
    LET named == SelectSeq(SubSeq(anc, 1, Len(anc) - 1), IsSome)
    IN  [k \in 1..Len(named) |-> Unwrap(named[k])]

(* C21: the module recorded for a resolved call site is the `::`-joined    *)
(* names of exactly the named namespace entries that are ancestors of the  *)
(* call site's variable entry in the debug tree, outermost first, for      *)
(* every tree shape: also for a call site visited after a namespace        *)
(* subtree has been left without entering another namespace, and for       *)
(* namespaces nested under entries that are not namespaces.                *)
C21_ModuleIsNamespacePath ==
    [][(Yielded /\ ResolvedSite) =>
            LET a == FirstAddress(Unwrap(Unwrap(die').location))
            IN  a \notin DOMAIN loc_map =>
                    loc_map'[a].module = join(AncestorNames(ancestry'), "::")]_vars

(* C22: when the writes between acquire and release total exactly the      *)
(* region's capacity, 1024 bytes, no write is rejected and the region      *)
(* holds the whole message, yet release commits zero bytes: the message    *)
(* that fits exactly is discarded, not delivered.                          *)
C22_ExactFitCommitsNothing ==
    /\ \A l \in InFlight :
        LET w == Unwrap(WRITERS[l])
        IN  w.attempted = w.grant.len =>
                /\ w.written = w.grant.len
                /\ w.grant.buf = Concat(w.slices)
                /\ RunsLen(w.grant.buf) = w.grant.len
    /\ IsSome(lastCommit) =>
        LET c == Unwrap(lastCommit)
        IN  c.attempted = c.cap => (c.used = 0 /\ c.bytes = <<>>)

\* a 400-byte and a 624-byte write filled the region, and release
\* committed nothing
C22_Witness ==
    /\ IsSome(lastCommit)
    /\ Unwrap(lastCommit).slices = <<[len |-> 400, val |-> 2], [len |-> 624, val |-> 1]>>
    /\ Unwrap(lastCommit).cap = GRANT_SIZE
    /\ Unwrap(lastCommit).used = 0

=============================================================================
